---- MODULE Spec2Model ----
(***************************************************************************)
(* Chain adapter of the Hyperlane agents: the mailbox adapter of the       *)
(* hyperlane-atleta crate (event indexing, batched delivery, submission    *)
(* with finality wait) and the merkle tree hook indexer of the             *)
(* hyperlane-ethereum crate.                                               *)
(*                                                                         *)
(* One caller task drives one adapter operation at a time; every await of  *)
(* the Rust code is a step, and the ledger finalizes blocks in between.    *)
(***************************************************************************)
EXTENDS Integers, Sequences, FiniteSets, TLC

\* ------------------------------------------------------------------ bounds
MaxOps == 3              \* longest operation list handed to try_process_batch
MaxBlock == 3            \* highest block number of the ledger
MaxFinalityRetries == 2  \* retry budget of the finality wait
MaxLogs == 2             \* most logs one transport answer carries
MaxTransient == 2        \* most transient transport failures in a row

\* --------------------------------------------------------------- Option<T>
\* Rust's Option: None is the empty sequence, Some(x) the one-element one.
None == <<>>
Some(x) == <<x>>
IsSome(o) == Len(o) = 1
Unwrap(o) == o[1]

\* (0..n).collect(): the positions 0, 1, ..., n-1 in ascending order
Range0(n) == [i \in 1..n |-> i - 1]

Min(a, b) == IF a <= b THEN a ELSE b

\* ------------------------------------------------------------------ inputs
MessageIds == {"m1", "m2"}
\* a QueueOperation: its message and whether try_batch() accepts it
QueueOperations == [msg : MessageIds, batchable : BOOLEAN]
OpLists == UNION {[1..n -> QueueOperations] : n \in 0..MaxOps}
Blocks == 1..MaxBlock
\* what the probe can report: one success flag per call
FlagLists == UNION {[1..n -> BOOLEAN] : n \in 0..MaxOps}

VARIABLES
    finalized,         \* ledger: the latest finalized block number
    op,                \* the adapter operation in progress ("none" when idle)
    pc,                \* the position of the caller inside that operation
    ops,               \* try_process_batch: the operations handed in
    built,             \* try_process_batch: per operation, "pending" | "ok" | "err"
    call_results,      \* simulate_batch: the probe's per-call success flags
    batch_simulation,  \* the BatchSimulation (the plan) simulate_batch returned
    receipt_block,     \* Option: the inclusion block of the broadcast transaction
    polls,             \* finality wait: the polls of the oracle made so far
    last_poll,         \* Option: what the oracle reported at the latest poll
    probe,             \* simulate_batch: what became of the read-only probe
    indexer,           \* the indexer an indexing operation runs on
    range,             \* fetch_logs_in_range: the range asked for, <<start, end>>
    filter,            \* Option: the block filter of the log query sent out
    failures,          \* transport failures this operation has met so far
    raw_logs,          \* the logs the transport answered the log query with
    events,            \* the events an indexing operation returned
    arbitrum_node_interface, \* adapter field: is the NodeInterface handle present
    gas_limit,         \* process_estimate_costs: Option, the call's gas limit
    l2_gas_limit,      \* process_estimate_costs: Option, the auxiliary estimate
    value,             \* Option: the value a read operation returned with Ok
    oracle,            \* what the ledger answered the latest finalized-block read
    ledger_tree,       \* Option: the Tree the ledger answered the tree() call with
    task_pc,           \* concurrent try_process_batch invocations: where each is
    task_ops,          \* ... its operation list
    multicalls,        \* ... the Multicall objects: the calls each one holds
    task_batch,        \* ... the aggregate call multicall::batch returned to it
    task_results,      \* ... the probe's per-call results
    task_simulation,   \* ... its BatchSimulation
    rpc,               \* the requests this operation has issued to the transport
    result             \* what the operation returned to its caller

vars == <<finalized, op, pc, ops, built, call_results, batch_simulation,
          receipt_block, polls, last_poll, probe, indexer, range, filter,
          failures, raw_logs, events, arbitrum_node_interface, gas_limit, l2_gas_limit,
          value, oracle, ledger_tree, rpc, result,
          task_pc, task_ops, multicalls, task_batch, task_results, task_simulation>>

\* the variables of batched delivery and submission, and those of indexing
batch_vars == <<ops, built, call_results, batch_simulation, probe>>
tx_vars == <<receipt_block, polls, last_poll>>
index_vars == <<indexer, range, filter, failures, raw_logs, events>>
\* the adapter's construction-time flag and the locals of the read operations
read_vars == <<arbitrum_node_interface, gas_limit, l2_gas_limit, value, oracle,
               ledger_tree>>

\* the locals of the concurrent invocations of try_process_batch
task_vars == <<task_pc, task_ops, multicalls, task_batch, task_results, task_simulation>>
\* everything the single caller's operations read or write
caller_vars == <<finalized, op, pc, batch_vars, tx_vars, index_vars, read_vars, rpc, result>>

\* ----------------------------------------------------------------- results
NoResult == [kind |-> "none", err |-> "", outcome |-> None, failed_indexes |-> <<>>]
Err(e) == [kind |-> "err", err |-> e, outcome |-> None, failed_indexes |-> <<>>]
\* TxOutcome, reduced to the block that holds the transaction
TxOutcome(block) == [kind |-> "TxOutcome", err |-> "", outcome |-> Some(block),
                     failed_indexes |-> <<>>]
\* hyperlane_core::BatchResult::new(outcome, failed_indexes)
BatchResult_new(outcome, failed_indexes) ==
    [kind |-> "BatchResult", err |-> "", outcome |-> outcome,
     failed_indexes |-> failed_indexes]
\* hyperlane_core::BatchResult::failed(num_operations)
BatchResult_failed(num_operations) == BatchResult_new(None, Range0(num_operations))

NoPlan == [call |-> None, excluded_call_indexes |-> <<>>]

\* two tasks that call into the same adapter instance
Tasks == {1, 2}

TaskInit ==
    /\ task_pc = [t \in Tasks |-> "idle"]
    /\ task_ops = [t \in Tasks |-> <<>>]
    /\ multicalls = [t \in Tasks |-> <<>>]
    /\ task_batch = [t \in Tasks |-> <<>>]
    /\ task_results = [t \in Tasks |-> <<>>]
    /\ task_simulation = [t \in Tasks |-> NoPlan]

Init ==
    /\ TaskInit
    /\ finalized = 0
    /\ op = "none"
    /\ pc = "idle"
    /\ ops = <<>>
    /\ built = <<>>
    /\ call_results = <<>>
    /\ batch_simulation = NoPlan
    /\ receipt_block = None
    /\ polls = 0
    /\ last_poll = None
    /\ probe = "none"
    /\ indexer = "none"
    /\ range = <<>>
    /\ filter = None
    /\ failures = 0
    /\ raw_logs = <<>>
    /\ events = <<>>
    /\ arbitrum_node_interface \in BOOLEAN
    /\ gas_limit = None
    /\ l2_gas_limit = None
    /\ value = None
    /\ oracle = "none"
    /\ ledger_tree = None
    /\ rpc = <<>>
    /\ result = NoResult

\* The ledger finalizes one more block; a finalized block is never reverted.
LedgerFinalize ==
    /\ finalized < MaxBlock
    /\ finalized' = finalized + 1
    /\ UNCHANGED <<task_vars, read_vars, op, pc, batch_vars, tx_vars, index_vars, rpc, result>>

\* ------------------------------------------------- Batch Simulator (pure part)
\* multicall::batch(multicall, calls): clears the multicall, adds every given
\* call (failures allowed) and returns the aggregate call over all of them.
multicall_batch(contract_calls) == contract_calls

\* simulate_batch: the positions whose probe result is not a success
\* (zip of calls and results, enumerate, filter_map, collect_vec)
failed_calls_NoFilter(contract_calls, results) ==
    Range0(Min(Len(contract_calls), Len(results)))
failed_calls_Successes(contract_calls, results) ==
    SelectSeq(Range0(Min(Len(contract_calls), Len(results))),
              LAMBDA index : results[index + 1])
failed_calls(contract_calls, results) ==
    SelectSeq(Range0(Min(Len(contract_calls), Len(results))),
              LAMBDA index : ~results[index + 1])

\* EthereumMailbox::submittable_batch: wraps the aggregate call it is given
submittable_batch(call) == call

\* BatchSimulation::new (derive_new)
BatchSimulation_new(call, excluded_call_indexes) ==
    [call |-> call, excluded_call_indexes |-> excluded_call_indexes]

\* BatchSimulation::failed(ops_count)
BatchSimulation_failed_Empty(ops_count) == BatchSimulation_new(None, <<>>)
BatchSimulation_failed(ops_count) == BatchSimulation_new(None, Range0(ops_count))

\* simulate_batch after the probe returned `results`: count, decide, emit
simulate_batch_decide_AtLeastOne(batch, contract_calls, results) ==
    LET failed == failed_calls(contract_calls, results)
        call_count == Len(contract_calls)
        successful_calls == call_count - Len(failed)
    IN  IF successful_calls >= 1
        THEN BatchSimulation_new(Some(submittable_batch(batch)), failed)
        ELSE BatchSimulation_failed(call_count)
simulate_batch_decide(batch, contract_calls, results) ==
    LET failed == failed_calls(contract_calls, results)
        call_count == Len(contract_calls)
        successful_calls == call_count - Len(failed)
    IN  IF successful_calls >= 2
        THEN BatchSimulation_new(Some(submittable_batch(batch)), failed)
        ELSE BatchSimulation_failed(call_count)

\* the candidate calls of the batch: one per operation, tagged with its position
contract_calls == [i \in 1..Len(ops) |-> [index |-> i - 1, msg |-> ops[i].msg]]

\* ------------------------------------------------------- Transaction Submitter
\* What the operation hands back once its transaction is in `block`:
\* process returns the outcome, try_submit wraps it with the plan's exclusions.
Outcome(block) ==
    IF op = "process"
    THEN TxOutcome(block)
    ELSE BatchResult_new(Some(block), batch_simulation.excluded_call_indexes)

Return(r) ==
    /\ pc' = "done"
    /\ result' = r

\* fill_tx_gas_params(call, provider, overrides).await? : first await of
\* SubmittableBatch::submit, and (through process_contract_call) of process
FillTxGasParams(ok) ==
    /\ pc = "fill_tx_gas_params"
    /\ rpc' = Append(rpc, "fill_tx_gas_params")
    /\ IF ok
       THEN pc' = "report_tx" /\ UNCHANGED result
       ELSE Return(Err("GasFillError"))
    /\ UNCHANGED <<task_vars, read_vars, finalized, op, batch_vars, tx_vars, index_vars>>

\* report_tx(call).await? : the broadcast
ReportTxSend(ok) ==
    /\ pc = "report_tx"
    /\ rpc' = Append(rpc, "send_transaction")
    /\ IF ok
       THEN pc' = "pending_tx" /\ UNCHANGED result
       ELSE Return(Err("SubmissionError"))
    /\ UNCHANGED <<task_vars, read_vars, finalized, op, batch_vars, tx_vars, index_vars>>

\* what submit / process do with the receipt report_tx returned:
\* ensure_block_finalized(provider, outcome.block_number.unwrap()) comes next
AfterReportTx_NoFinalityWait(block) ==
    /\ receipt_block' = Some(block)
    /\ Return(Outcome(block))
AfterReportTx_ReturnIfAlreadyFinal(block) ==
    /\ receipt_block' = Some(block)
    /\ IF finalized >= block
       THEN Return(Outcome(block))
       ELSE pc' = "ensure_block_finalized" /\ UNCHANGED result
AfterReportTx(block) ==
    /\ receipt_block' = Some(block)
    /\ pc' = "ensure_block_finalized"
    /\ UNCHANGED result

\* report_tx: the transaction is included and its receipt comes back
ReportTxIncluded(block) ==
    /\ pc = "pending_tx"
    /\ AfterReportTx(block)
    /\ UNCHANGED <<task_vars, read_vars, finalized, op, batch_vars, polls, last_poll, index_vars, rpc>>

\* ensure_block_finalized(...).await? followed by Ok(outcome.into()):
\* the error of the finality wait is propagated, the outcome returned otherwise
AfterEnsureBlockFinalized_IgnoreError(is_finalized) ==
    Return(Outcome(Unwrap(receipt_block)))
AfterEnsureBlockFinalized(is_finalized) ==
    IF is_finalized
    THEN Return(Outcome(Unwrap(receipt_block)))
    ELSE Return(Err("FinalityTimeout"))

\* ensure_block_finalized: one poll of the Finality Oracle. The wait ends well
\* when the oracle reports the inclusion block finalized, and with an error
\* once the retry budget is spent.
EnsureBlockFinalizedPoll ==
    /\ pc = "ensure_block_finalized"
    /\ rpc' = Append(rpc, "get_finalized_block_number")
    /\ last_poll' = Some(finalized)
    /\ polls' = polls + 1
    /\ IF finalized >= Unwrap(receipt_block)
       THEN AfterEnsureBlockFinalized(TRUE)
       ELSE IF polls + 1 > MaxFinalityRetries
            THEN AfterEnsureBlockFinalized(FALSE)
            ELSE UNCHANGED <<pc, result>>
    /\ UNCHANGED <<task_vars, read_vars, finalized, op, batch_vars, receipt_block, index_vars>>

\* Mailbox::process(message, metadata, tx_gas_limit)
Process ==
    /\ pc = "idle"
    /\ op' = "process"
    /\ pc' = "fill_tx_gas_params"
    /\ UNCHANGED <<task_vars, read_vars, finalized, batch_vars, tx_vars, index_vars, rpc, result>>

\* -------------------------------------------------------- try_process_batch
\* ops.iter().map(|op| op.try_batch()).collect()?  then build_multicall(..)?,
\* then one process_contract_call future per batch item
TryProcessBatch(list, multicall_ok) ==
    /\ pc = "idle"
    /\ op' = "try_process_batch"
    /\ ops' = list
    /\ IF \E i \in 1..Len(list) : ~list[i].batchable
       THEN Return(Err("NotBatchable")) /\ UNCHANGED <<built, probe>>
       ELSE IF ~multicall_ok
            THEN /\ Return(Err("MulticallError"))
                 /\ probe' = "build_multicall_err"
                 /\ UNCHANGED built
            ELSE /\ pc' = "join_all"
                 /\ built' = [i \in 1..Len(list) |-> "pending"]
                 /\ UNCHANGED <<result, probe>>
    /\ UNCHANGED <<task_vars, read_vars, finalized, call_results, batch_simulation, tx_vars, index_vars, rpc>>

\* one of the joined futures completes: process_contract_call for item i
\* (its fill_tx_gas_params may fail)
ProcessContractCall(i, ok) ==
    /\ pc = "join_all"
    /\ i \in 1..Len(built)
    /\ built[i] = "pending"
    /\ built' = [built EXCEPT ![i] = IF ok THEN "ok" ELSE "err"]
    /\ rpc' = Append(rpc, "fill_tx_gas_params")
    /\ UNCHANGED <<task_vars, read_vars, finalized, op, pc, ops, call_results, batch_simulation, probe,
                   tx_vars, index_vars, result>>

\* join_all(..).await.into_iter().collect::<ChainResult<Vec<_>>>()?
JoinAll_DropsFailedBuilds ==
    /\ pc = "join_all"
    /\ \A i \in 1..Len(built) : built[i] # "pending"
    /\ pc' = "simulate_batch"
    /\ UNCHANGED <<task_vars, read_vars, finalized, op, batch_vars, tx_vars, index_vars, rpc, result>>
JoinAll ==
    /\ pc = "join_all"
    /\ \A i \in 1..Len(built) : built[i] # "pending"
    /\ IF \E i \in 1..Len(built) : built[i] = "err"
       THEN Return(Err("GasFillError"))
       ELSE pc' = "simulate_batch" /\ UNCHANGED result
    /\ UNCHANGED <<task_vars, read_vars, finalized, op, batch_vars, tx_vars, index_vars, rpc>>

\* simulate_batch: multicall::batch(..).await?, batch.call().await?, then the
\* decision. `answer` is what the read-only aggregate call does.
SimulateBatch_ProbeErrorAsFailed(answer, flags) ==
    /\ pc = "simulate_batch"
    /\ flags \in [1..Len(ops) -> BOOLEAN]
    /\ probe' = answer
    /\ IF answer = "batch_err"
       THEN /\ batch_simulation' = BatchSimulation_failed(Len(contract_calls))
            /\ pc' = "try_submit"
            /\ UNCHANGED <<rpc, call_results, result>>
       ELSE /\ rpc' = Append(rpc, "multicall_call")
            /\ IF answer = "call_err"
               THEN /\ batch_simulation' = BatchSimulation_failed(Len(contract_calls))
                    /\ pc' = "try_submit"
                    /\ UNCHANGED <<call_results, result>>
               ELSE /\ call_results' = flags
                    /\ batch_simulation' =
                         simulate_batch_decide(multicall_batch(contract_calls),
                                               contract_calls, flags)
                    /\ pc' = "try_submit"
                    /\ UNCHANGED result
    /\ failures' = IF answer = "call_err" THEN failures + 1 ELSE failures
    /\ UNCHANGED <<task_vars, read_vars, finalized, op, ops, built, tx_vars,
                   indexer, range, filter, raw_logs, events>>
SimulateBatch(answer, flags) ==
    /\ pc = "simulate_batch"
    /\ flags \in [1..Len(ops) -> BOOLEAN]
    /\ probe' = answer
    /\ IF answer = "batch_err"
       THEN /\ Return(Err("MulticallError"))
            /\ UNCHANGED <<rpc, call_results, batch_simulation>>
       ELSE /\ rpc' = Append(rpc, "multicall_call")
            /\ IF answer = "call_err"
               THEN /\ Return(Err("TransportError"))
                    /\ UNCHANGED <<call_results, batch_simulation>>
               ELSE /\ call_results' = flags
                    /\ batch_simulation' =
                         simulate_batch_decide(multicall_batch(contract_calls),
                                               contract_calls, flags)
                    /\ pc' = "try_submit"
                    /\ UNCHANGED result
    /\ failures' = IF answer = "call_err" THEN failures + 1 ELSE failures
    /\ UNCHANGED <<task_vars, read_vars, finalized, op, ops, built, tx_vars,
                   indexer, range, filter, raw_logs, events>>

\* BatchSimulation::try_submit: submit the aggregate when there is one,
\* otherwise report every operation as failed
TrySubmit_NoGasFill ==
    /\ pc = "try_submit"
    /\ IF IsSome(batch_simulation.call)
       THEN pc' = "report_tx" /\ UNCHANGED result
       ELSE Return(BatchResult_failed(Len(batch_simulation.excluded_call_indexes)))
    /\ UNCHANGED <<task_vars, read_vars, finalized, op, batch_vars, tx_vars, index_vars, rpc>>
TrySubmit_AlwaysSubmits ==
    /\ pc = "try_submit"
    /\ pc' = "fill_tx_gas_params"
    /\ UNCHANGED <<task_vars, read_vars, finalized, op, batch_vars, tx_vars, index_vars, rpc, result>>
TrySubmit ==
    /\ pc = "try_submit"
    /\ IF IsSome(batch_simulation.call)
       THEN pc' = "fill_tx_gas_params" /\ UNCHANGED result
       ELSE Return(BatchResult_failed(Len(batch_simulation.excluded_call_indexes)))
    /\ UNCHANGED <<task_vars, read_vars, finalized, op, batch_vars, tx_vars, index_vars, rpc>>

\* ---------------------------------------------------------------- Event Indexer
IndexerKinds == {"dispatch", "delivery", "tree"}

\* Raw dispatched messages as the ledger logs them: the version byte and the
\* four big-endian bytes of the nonce (the rest of the message plays no part).
RawMessages == {<<3, 0, 0, 0, 2>>, <<3, 0, 0, 0, 7>>, <<3, 0, 0, 1, 0>>}

\* HyperlaneMessage::from(Vec<u8>): reads the version and the big-endian nonce
HyperlaneMessage_from(raw) ==
    [version |-> raw[1],
     nonce |-> raw[2] * 16777216 + raw[3] * 65536 + raw[4] * 256 + raw[5],
     raw |-> raw]

\* the payloads the three event filters decode from a log
Payloads(kind) ==
    CASE kind = "dispatch" -> [message : RawMessages]
      [] kind = "delivery" -> [message_id : MessageIds]
      [] kind = "tree" -> [index : {0, 1}, message_id : {"m1"}]

\* query_with_meta() of a filter with from_block(a) and to_block(b): the
\* transport answers with logs of blocks a..b, in an order of its choosing and
\* possibly with repeats
LogsInBlocks_NoToBlock(kind, a, b) == [event : Payloads(kind), block_number : {n \in Blocks : a <= n}]
LogsInBlocks(kind, a, b) == [event : Payloads(kind), block_number : {n \in Blocks : a <= n /\ n <= b}]
Answers(S) == UNION {[1..n -> S] : n \in 0..MaxLogs}

\* the closure each indexer maps over the (event, meta) pairs
IndexedEvent(kind, log) ==
    CASE kind = "dispatch" ->
           [inner |-> HyperlaneMessage_from(log.event.message),
            meta |-> [block_number |-> log.block_number]]
      [] kind = "delivery" ->
           [inner |-> log.event.message_id,
            meta |-> [block_number |-> log.block_number]]
      [] kind = "tree" ->
           [inner |-> [leaf_index |-> log.event.index,
                       message_id |-> log.event.message_id],
            meta |-> [block_number |-> log.block_number]]

MapEvents_Deduplicated(kind, logs) ==
    LET keep == SelectSeq([i \in 1..Len(logs) |-> i],
                          LAMBDA i : \A j \in 1..(i - 1) : logs[j] # logs[i])
    IN  [k \in 1..Len(keep) |-> IndexedEvent(kind, logs[keep[k]])]
MapEvents(kind, logs) == [i \in 1..Len(logs) |-> IndexedEvent(kind, logs[i])]

\* Vec::sort_by(|a, b| a.nonce.cmp(&b.nonce)): a stable sort, ascending
RECURSIVE InsertByNonce(_, _)
InsertByNonce(sorted, e) ==
    IF sorted = <<>> THEN <<e>>
    ELSE IF sorted[Len(sorted)].inner.nonce <= e.inner.nonce
         THEN Append(sorted, e)
         ELSE Append(InsertByNonce(SubSeq(sorted, 1, Len(sorted) - 1), e),
                     sorted[Len(sorted)])
RECURSIVE SortAscending(_)
SortAscending(s) ==
    IF s = <<>> THEN <<>>
    ELSE InsertByNonce(SortAscending(SubSeq(s, 1, Len(s) - 1)), s[Len(s)])
RECURSIVE Reverse(_)
Reverse(s) == IF s = <<>> THEN <<>> ELSE Append(Reverse(Tail(s)), Head(s))

sort_by_nonce_Unsorted(evs) == evs
sort_by_nonce_Descending(evs) == Reverse(SortAscending(evs))
sort_by_nonce_TiesReversed(evs) == SortAscending(Reverse(evs))
sort_by_nonce(evs) == SortAscending(evs)

\* what fetch_logs_in_range returns for the logs the transport answered with
fetch_logs_in_range_events(kind, logs) ==
    IF kind = "dispatch"
    THEN sort_by_nonce(MapEvents(kind, logs))
    ELSE MapEvents(kind, logs)

\* Whether fetch_logs_in_range sends its log query for the range: none of the
\* three implementations looks at the range before querying.
sends_query_OnlyNonEmpty(start, end) == start <= end
sends_query(start, end) == TRUE

\* Indexer::fetch_logs_in_range(range) of the three indexers: one log query
\* with the range's bounds as block filter, `?` on its error, map (and sort)
FetchLogsInRange(kind, start, end, ok) ==
    /\ pc = "idle"
    /\ op' = "fetch_logs_in_range"
    /\ indexer' = kind
    /\ range' = <<start, end>>
    /\ IF sends_query(start, end)
       THEN /\ filter' = Some([from_block |-> start, to_block |-> end])
            /\ rpc' = Append(rpc, "get_logs")
            /\ IF ok
               THEN /\ \E logs \in Answers(LogsInBlocks(kind, start, end)) :
                         /\ raw_logs' = logs
                         /\ events' = fetch_logs_in_range_events(kind, logs)
                    /\ Return([NoResult EXCEPT !.kind = "events"])
               ELSE /\ Return(Err("TransportError"))
                    /\ UNCHANGED <<raw_logs, events>>
       ELSE /\ Return(Err("EmptyRange"))
            /\ UNCHANGED <<filter, rpc, raw_logs, events>>
    /\ failures' = IF sends_query(start, end) /\ ~ok THEN failures + 1 ELSE failures
    /\ UNCHANGED <<task_vars, read_vars, finalized, batch_vars, tx_vars>>

\* Whether fetch_logs_by_tx_hash wraps its read in call_and_retry_indefinitely:
\* the tree-insertion indexer does, the dispatch indexer uses `?` on the error.
retries_indefinitely(kind) == kind = "tree"

\* Indexer::fetch_logs_by_tx_hash(tx_hash): entry
FetchLogsByTxHash(kind) ==
    /\ pc = "idle"
    /\ kind \in {"dispatch", "tree"}
    /\ op' = "fetch_logs_by_tx_hash"
    /\ indexer' = kind
    /\ pc' = "fetch_raw_logs"
    /\ UNCHANGED <<task_vars, read_vars, finalized, batch_vars, tx_vars, range, filter, failures,
                   raw_logs, events, rpc, result>>

\* one attempt of fetch_raw_logs_and_(log_)meta: a receipt read that the
\* transport may fail; the transaction's logs all sit in its one block
FetchRawLogs(ok, block) ==
    /\ pc = "fetch_raw_logs"
    /\ rpc' = Append(rpc, "get_transaction_receipt")
    /\ IF ok
       THEN /\ \E logs \in Answers(LogsInBlocks(indexer, block, block)) :
                 /\ raw_logs' = logs
                 /\ events' = MapEvents(indexer, logs)
            /\ Return([NoResult EXCEPT !.kind = "events"])
            /\ UNCHANGED failures
       ELSE /\ failures < MaxTransient
            /\ failures' = failures + 1
            /\ IF retries_indefinitely(indexer)
               THEN UNCHANGED <<pc, result, raw_logs, events>>
               ELSE Return(Err("TransportError")) /\ UNCHANGED <<raw_logs, events>>
    /\ UNCHANGED <<task_vars, read_vars, finalized, op, batch_vars, tx_vars, indexer, range, filter>>

\* -------------------------------------------------------------- Finality Oracle
\* what the ledger says when asked for its finalized block
OracleAnswers == {"transport_err", "no_block", "no_number", "ok"}

\* a Result: Ok(v) or Err(e)
Ok(v) == [ok |-> TRUE, err |-> "", v |-> Some(v)]
Fail(e) == [ok |-> FALSE, err |-> e, v |-> None]

\* MiddlewareExt::get_finalized_block_number:
\* get_block(Finalized).await.map(|block| block.unwrap_or_default().number)
MiddlewareExt_get_finalized_block_number(answer) ==
    CASE answer = "transport_err" -> Fail("MiddlewareError")
      [] answer = "no_block" -> Ok(None)     \* the default block has no number
      [] answer = "no_number" -> Ok(None)
      [] answer = "ok" -> Ok(Some(finalized))

BLOCK_ERROR_MSG == "Unable to get finalized block number"

\* EthereumMailboxIndexer::get_finalized_block_number:
\* map_err(from_other)?, ok_or(CustomError(BLOCK_ERROR_MSG))?, as_u32()
get_finalized_block_number_DefaultsToZero(answer) ==
    LET r == MiddlewareExt_get_finalized_block_number(answer)
    IN  IF ~r.ok THEN Fail("TransportError")
        ELSE IF ~IsSome(Unwrap(r.v)) THEN Ok(0)
        ELSE Ok(Unwrap(Unwrap(r.v)))
get_finalized_block_number(answer) ==
    LET r == MiddlewareExt_get_finalized_block_number(answer)
    IN  IF ~r.ok THEN Fail("TransportError")
        ELSE IF ~IsSome(Unwrap(r.v)) THEN Fail(BLOCK_ERROR_MSG)
        ELSE Ok(Unwrap(Unwrap(r.v)))

\* Indexer::get_finalized_block_number(): one read of the ledger per call
GetFinalizedBlockNumber(kind, answer) ==
    /\ pc = "idle"
    /\ op' = "get_finalized_block_number"
    /\ indexer' = kind
    /\ oracle' = answer
    /\ rpc' = Append(rpc, "get_block_finalized")
    /\ LET r == get_finalized_block_number(answer)
       IN  IF r.ok
           THEN /\ value' = r.v
                /\ last_poll' = IF answer = "ok" THEN Some(finalized) ELSE None
                /\ Return([NoResult EXCEPT !.kind = "ok"])
           ELSE /\ Return(Err(r.err))
                /\ UNCHANGED <<value, last_poll>>
    /\ failures' = IF answer = "transport_err" THEN failures + 1 ELSE failures
    /\ UNCHANGED <<task_vars, finalized, batch_vars, receipt_block, polls, range, filter,
                   raw_logs, events, arbitrum_node_interface, ledger_tree, gas_limit, l2_gas_limit>>

\* ----------------------------------------------------- latest sequence and tip
\* The ledger's sequence counters as of block b: the mailbox nonce for the
\* dispatch indexer, the tree's leaf count for the tree-insertion indexer.
\* Every block of this ledger dispatches messages, so the counters grow.
LedgerCount(kind, b) == IF kind = "dispatch" THEN 2 * b ELSE b + 1

\* the block the counter read is pinned to: .block(u64::from(tip))
sequence_read_block_Latest(tip) == finalized
sequence_read_block(tip) == tip

\* the count latest_sequence_count_and_tip reports: Some(sequence) for the
\* dispatch and tree-insertion indexers, None for the delivery indexer
sequence_count_DeliveryZero(kind, sequence) ==
    IF kind = "delivery" THEN Some(0) ELSE Some(Unwrap(sequence))
sequence_count(kind, sequence) ==
    IF kind = "delivery" THEN None ELSE Some(Unwrap(sequence))

\* SequenceAwareIndexer::latest_sequence_count_and_tip: the tip read;
\* the delivery indexer returns (None, tip) right after it
LatestSequenceCountAndTip(kind, answer) ==
    /\ pc = "idle"
    /\ op' = "latest_sequence_count_and_tip"
    /\ indexer' = kind
    /\ oracle' = answer
    /\ rpc' = Append(rpc, "get_block_finalized")
    /\ LET r == get_finalized_block_number(answer)
       IN  IF ~r.ok
           THEN Return(Err(r.err)) /\ UNCHANGED <<value, last_poll>>
           ELSE /\ last_poll' = IF answer = "ok" THEN Some(finalized) ELSE None
                /\ IF kind = "delivery"
                   THEN /\ value' = Some([count |-> sequence_count(kind, None),
                                          tip |-> Unwrap(r.v)])
                        /\ Return([NoResult EXCEPT !.kind = "ok"])
                   ELSE /\ value' = Some([count |-> None, tip |-> Unwrap(r.v)])
                        /\ pc' = "sequence_call"
                        /\ UNCHANGED result
    /\ failures' = IF answer = "transport_err" THEN failures + 1 ELSE failures
    /\ UNCHANGED <<task_vars, finalized, batch_vars, receipt_block, polls, range, filter,
                   raw_logs, events, arbitrum_node_interface, ledger_tree, gas_limit, l2_gas_limit>>

\* contract.nonce() / contract.count() .block(tip).call().await?
SequenceCall_RetriesOnce(ok) ==
    /\ pc = "sequence_call"
    /\ rpc' = Append(rpc, "call_sequence")
    /\ IF ok
       THEN LET tip == Unwrap(value).tip
                sequence == LedgerCount(indexer, sequence_read_block(tip))
            IN  /\ value' = Some([count |-> sequence_count(indexer, Some(sequence)),
                                  tip |-> tip])
                /\ Return([NoResult EXCEPT !.kind = "ok"])
       ELSE /\ IF failures = 0
               THEN UNCHANGED <<pc, result>>
               ELSE Return(Err("TransportError"))
            /\ UNCHANGED value
    /\ failures' = IF ok THEN failures ELSE failures + 1
    /\ UNCHANGED <<task_vars, finalized, op, batch_vars, tx_vars, indexer, range, filter, raw_logs, events,
                   arbitrum_node_interface, ledger_tree, gas_limit, l2_gas_limit, oracle>>
SequenceCall(ok) ==
    /\ pc = "sequence_call"
    /\ rpc' = Append(rpc, "call_sequence")
    /\ IF ok
       THEN LET tip == Unwrap(value).tip
                sequence == LedgerCount(indexer, sequence_read_block(tip))
            IN  /\ value' = Some([count |-> sequence_count(indexer, Some(sequence)),
                                  tip |-> tip])
                /\ Return([NoResult EXCEPT !.kind = "ok"])
       ELSE Return(Err("TransportError")) /\ UNCHANGED value
    /\ failures' = IF ok THEN failures ELSE failures + 1
    /\ UNCHANGED <<task_vars, finalized, op, batch_vars, tx_vars, indexer, range, filter, raw_logs, events,
                   arbitrum_node_interface, ledger_tree, gas_limit, l2_gas_limit, oracle>>

\* ------------------------------------------------------- Mailbox count, delivered
\* Mailbox::count: contract.nonce().block(BlockNumber::Finalized).call().await?
MailboxCount(ok) ==
    /\ pc = "idle"
    /\ op' = "count"
    /\ rpc' = Append(rpc, "call_nonce")
    /\ IF ok
       THEN /\ value' = Some(LedgerCount("dispatch", finalized))
            /\ Return([NoResult EXCEPT !.kind = "ok"])
       ELSE Return(Err("TransportError")) /\ UNCHANGED value
    /\ failures' = IF ok THEN failures ELSE failures + 1
    /\ UNCHANGED <<task_vars, finalized, batch_vars, tx_vars, indexer, range, filter, raw_logs, events,
                   arbitrum_node_interface, ledger_tree, gas_limit, l2_gas_limit, oracle>>

\* Mailbox::delivered(id): contract.delivered(id).call().await?
Delivered(id, ok, answer) ==
    /\ pc = "idle"
    /\ op' = "delivered"
    /\ rpc' = Append(rpc, "call_delivered")
    /\ IF ok
       THEN /\ value' = Some(answer)
            /\ Return([NoResult EXCEPT !.kind = "ok"])
       ELSE Return(Err("TransportError")) /\ UNCHANGED value
    /\ failures' = IF ok THEN failures ELSE failures + 1
    /\ UNCHANGED <<task_vars, finalized, batch_vars, tx_vars, indexer, range, filter, raw_logs, events,
                   arbitrum_node_interface, ledger_tree, gas_limit, l2_gas_limit, oracle>>

\* ------------------------------------------------------------ Merkle State Reader
\* the depth of the tree: the branch is a fixed-size array of this many slots
TREE_DEPTH == 32

\* a U256 as its low word and the (or-ed) higher words
U256(low, high) == [low |-> low, high |-> high]
\* U256::as_usize: the low word when the higher words are zero, a panic otherwise
U256_as_usize(n) ==
    IF n.high = 0 THEN Ok(n.low)
    ELSE Fail("panic: Integer overflow when casting to usize")

\* The contract's tree as of block b: slot i of the branch holds the two-byte
\* digest <<i, b>> up to the level the leaves have filled, zeroes above it.
LedgerBranch(b) ==
    [i \in 1..TREE_DEPTH |-> IF i <= b + 1 THEN <<i, b>> ELSE <<0, 0>>]
\* what the transport answers contract.tree().call(): the Tree struct; an
\* answer that is not the contract's may carry a count beyond the word size
LedgerTrees ==
    {[branch |-> LedgerBranch(b),
      count |-> U256(LedgerCount("tree", b), high)] : b \in 0..MaxBlock, high \in {0, 1}}

\* H256::from([u8; 32]): the same bytes
H256_from(bytes) == bytes
\* IncrementalMerkle::new(branch, count)
IncrementalMerkle_new(branch, count) == [branch |-> branch, count |-> count]

\* impl Into<IncrementalMerkle> for Tree
Tree_into_ReversedBranch(tree) ==
    LET n == Len(tree.branch)
        branch == [i \in 1..n |-> H256_from(tree.branch[n + 1 - i])]
        count == U256_as_usize(tree.count)
    IN  IF count.ok THEN Ok(IncrementalMerkle_new(branch, Unwrap(count.v)))
        ELSE Fail(count.err)
Tree_into(tree) ==
    LET branch == [i \in 1..Len(tree.branch) |-> H256_from(tree.branch[i])]
        count == U256_as_usize(tree.count)
    IN  IF count.ok THEN Ok(IncrementalMerkle_new(branch, Unwrap(count.v)))
        ELSE Fail(count.err)

\* MerkleTreeHook::tree(maybe_lag): call_with_lag(..).await? (one block-number
\* read when a lag is given), then call.call().await?.into()
MerkleTree(lag, answer, tree) ==
    /\ pc = "idle"
    /\ answer = "lag_err" => lag
    /\ op' = "tree"
    /\ rpc' = rpc \o (IF lag THEN <<"get_block_number">> ELSE <<>>)
                  \o (IF answer = "lag_err" THEN <<>> ELSE <<"call_tree">>)
    /\ failures' = IF answer = "ok" THEN failures ELSE failures + 1
    /\ IF answer = "ok"
       THEN /\ ledger_tree' = Some(tree)
            /\ IF Tree_into(tree).ok
               THEN /\ value' = Tree_into(tree).v
                    /\ Return([NoResult EXCEPT !.kind = "ok"])
               ELSE /\ Return([NoResult EXCEPT !.kind = "panic",
                                               !.err = Tree_into(tree).err])
                    /\ UNCHANGED value
       ELSE /\ Return(Err("TransportError"))
            /\ UNCHANGED <<value, ledger_tree>>
    /\ UNCHANGED <<task_vars, finalized, batch_vars, tx_vars, indexer, range, filter, raw_logs,
                   events, arbitrum_node_interface, gas_limit, l2_gas_limit, oracle>>

\* ---------------------------------------------------------------- Cost Estimator
\* what the ledger reads of an estimate answer with
GasEstimates == {21000, 1000000}
L2Estimates == {200000, 300000}
GasPrices == {15, 20}
\* the buffer fill_tx_gas_params adds to the estimated gas
GAS_ESTIMATE_BUFFER == 75000

\* contract_call.tx.gas().copied().ok_or(ProcessGasLimitRequired)
resolve_gas_limit_OrDefault(gas) == IF IsSome(gas) THEN Ok(Unwrap(gas)) ELSE Ok(0)
resolve_gas_limit(gas) ==
    IF IsSome(gas) THEN Ok(Unwrap(gas)) ELSE Fail("ProcessGasLimitRequired")

\* if let Some(arbitrum_node_interface) = &self.arbitrum_node_interface
l2_estimate_wanted_Never == FALSE
l2_estimate_wanted == arbitrum_node_interface

\* Mailbox::process_estimate_costs(message, metadata)
ProcessEstimateCosts ==
    /\ pc = "idle"
    /\ op' = "process_estimate_costs"
    /\ pc' = "estimate_contract_call"
    /\ UNCHANGED <<task_vars, finalized, batch_vars, tx_vars, index_vars, read_vars, rpc, result>>

\* process_contract_call(message, metadata, None).await? : fill_tx_gas_params
\* estimates the call's gas and reads the latest block for the fees; then the
\* gas limit of the built call is taken, or the estimate fails for want of one
EstimateContractCall(answer, estimate) ==
    /\ pc = "estimate_contract_call"
    /\ IF answer = "estimate_err"
       THEN /\ rpc' = Append(rpc, "estimate_gas")
            /\ Return(Err("GasFillError"))
            /\ UNCHANGED gas_limit
       ELSE /\ rpc' = rpc \o <<"estimate_gas", "get_block">>
            /\ IF answer = "block_err"
               THEN Return(Err("GasFillError")) /\ UNCHANGED gas_limit
               ELSE LET gas == IF answer = "no_gas" THEN None
                               ELSE Some(estimate + GAS_ESTIMATE_BUFFER)
                    IN  /\ gas_limit' = gas
                        /\ IF resolve_gas_limit(gas).ok
                           THEN /\ pc' = IF l2_estimate_wanted
                                         THEN "estimate_retryable_ticket"
                                         ELSE "get_gas_price"
                                /\ UNCHANGED result
                           ELSE Return(Err(resolve_gas_limit(gas).err))
    /\ failures' = IF answer \in {"estimate_err", "block_err"}
                   THEN failures + 1 ELSE failures
    /\ UNCHANGED <<task_vars, finalized, op, batch_vars, tx_vars, indexer, range, filter, raw_logs, events,
                   arbitrum_node_interface, ledger_tree, l2_gas_limit, value, oracle>>

\* arbitrum_node_interface.estimate_retryable_ticket(..).estimate_gas().await?
EstimateRetryableTicket_ReadsTwice(ok, l2) ==
    /\ pc = "estimate_retryable_ticket"
    /\ rpc' = rpc \o <<"node_interface_estimate_gas", "node_interface_estimate_gas">>
    /\ IF ok
       THEN /\ l2_gas_limit' = Some(l2)
            /\ pc' = "get_gas_price"
            /\ UNCHANGED result
       ELSE Return(Err("TransportError")) /\ UNCHANGED l2_gas_limit
    /\ failures' = IF ok THEN failures ELSE failures + 1
    /\ UNCHANGED <<task_vars, finalized, op, batch_vars, tx_vars, indexer, range, filter, raw_logs, events,
                   arbitrum_node_interface, ledger_tree, gas_limit, value, oracle>>
EstimateRetryableTicket(ok, l2) ==
    /\ pc = "estimate_retryable_ticket"
    /\ rpc' = Append(rpc, "node_interface_estimate_gas")
    /\ IF ok
       THEN /\ l2_gas_limit' = Some(l2)
            /\ pc' = "get_gas_price"
            /\ UNCHANGED result
       ELSE Return(Err("TransportError")) /\ UNCHANGED l2_gas_limit
    /\ failures' = IF ok THEN failures ELSE failures + 1
    /\ UNCHANGED <<task_vars, finalized, op, batch_vars, tx_vars, indexer, range, filter, raw_logs, events,
                   arbitrum_node_interface, ledger_tree, gas_limit, value, oracle>>

\* provider.get_gas_price().await.map_err(..)? and Ok(TxCostEstimate {..})
GetGasPrice(ok, price) ==
    /\ pc = "get_gas_price"
    /\ rpc' = Append(rpc, "get_gas_price")
    /\ IF ok
       THEN /\ value' = Some([gas_limit |-> Unwrap(resolve_gas_limit(gas_limit).v),
                              gas_price |-> price,
                              l2_gas_limit |-> l2_gas_limit])
            /\ Return([NoResult EXCEPT !.kind = "ok"])
       ELSE Return(Err("TransportError")) /\ UNCHANGED value
    /\ failures' = IF ok THEN failures ELSE failures + 1
    /\ UNCHANGED <<task_vars, finalized, op, batch_vars, tx_vars, indexer, range, filter, raw_logs, events,
                   arbitrum_node_interface, ledger_tree, gas_limit, l2_gas_limit, oracle>>

\* the caller takes the result; the adapter keeps nothing between calls
Finish ==
    /\ pc = "done"
    /\ op' = "none"
    /\ pc' = "idle"
    /\ ops' = <<>>
    /\ built' = <<>>
    /\ call_results' = <<>>
    /\ batch_simulation' = NoPlan
    /\ receipt_block' = None
    /\ polls' = 0
    /\ last_poll' = None
    /\ probe' = "none"
    /\ indexer' = "none"
    /\ range' = <<>>
    /\ filter' = None
    /\ failures' = 0
    /\ raw_logs' = <<>>
    /\ events' = <<>>
    /\ gas_limit' = None
    /\ l2_gas_limit' = None
    /\ value' = None
    /\ oracle' = "none"
    /\ ledger_tree' = None
    /\ rpc' = <<>>
    /\ result' = NoResult
    /\ UNCHANGED <<task_vars, finalized, arbitrum_node_interface>>

Next ==
    \/ LedgerFinalize
    \/ Process
    \/ \E ok \in BOOLEAN : FillTxGasParams(ok)
    \/ \E ok \in BOOLEAN : ReportTxSend(ok)
    \/ \E block \in Blocks : ReportTxIncluded(block)
    \/ EnsureBlockFinalizedPoll
    \/ \E list \in OpLists, multicall_ok \in BOOLEAN : TryProcessBatch(list, multicall_ok)
    \/ \E i \in 1..MaxOps, ok \in BOOLEAN : ProcessContractCall(i, ok)
    \/ JoinAll
    \/ \E answer \in {"batch_err", "call_err", "ok"}, flags \in FlagLists :
          SimulateBatch(answer, flags)
    \/ TrySubmit
    \/ \E kind \in IndexerKinds, start \in Blocks, end \in Blocks, ok \in BOOLEAN :
          FetchLogsInRange(kind, start, end, ok)
    \/ \E kind \in IndexerKinds : FetchLogsByTxHash(kind)
    \/ \E ok \in BOOLEAN, block \in Blocks : FetchRawLogs(ok, block)
    \/ \E kind \in IndexerKinds, answer \in OracleAnswers :
          GetFinalizedBlockNumber(kind, answer)
    \/ \E kind \in IndexerKinds, answer \in OracleAnswers :
          LatestSequenceCountAndTip(kind, answer)
    \/ \E ok \in BOOLEAN : SequenceCall(ok)
    \/ \E ok \in BOOLEAN : MailboxCount(ok)
    \/ \E id \in MessageIds, ok \in BOOLEAN, answer \in BOOLEAN : Delivered(id, ok, answer)
    \/ \E lag \in BOOLEAN, answer \in {"lag_err", "call_err", "ok"}, tree \in LedgerTrees :
          MerkleTree(lag, answer, tree)
    \/ ProcessEstimateCosts
    \/ \E answer \in {"estimate_err", "block_err", "no_gas", "ok"},
          estimate \in GasEstimates : EstimateContractCall(answer, estimate)
    \/ \E ok \in BOOLEAN, l2 \in L2Estimates : EstimateRetryableTicket(ok, l2)
    \/ \E ok \in BOOLEAN, price \in GasPrices : GetGasPrice(ok, price)
    \/ Finish

Spec == Init /\ [][Next]_vars

\* ------------------------------------------- concurrent batch deliveries
\* The Multicall object invocation t works on: the local
\* `let mut multicall = build_multicall(..)` of its own try_process_batch.
multicall_of_Shared(t) == 1
multicall_of(t) == t

\* the candidate calls invocation t builds from its operations
task_contract_calls(t) ==
    [i \in 1..Len(task_ops[t]) |->
        [index |-> i - 1, msg |-> task_ops[t][i].msg, owner |-> t]]

\* a task calls try_process_batch(ops) with batchable operations
TaskInvoke(t, list) ==
    /\ task_pc[t] = "idle"
    /\ \A i \in 1..Len(list) : list[i].batchable
    /\ task_ops' = [task_ops EXCEPT ![t] = list]
    /\ task_pc' = [task_pc EXCEPT ![t] = "build_multicall"]
    /\ UNCHANGED <<caller_vars, multicalls, task_batch, task_results, task_simulation>>

\* build_multicall(provider.clone(), &conn, domain.clone()).await: a new,
\* empty Multicall for this invocation
TaskBuildMulticall(t) ==
    /\ task_pc[t] = "build_multicall"
    /\ multicalls' = [multicalls EXCEPT ![multicall_of(t)] = <<>>]
    /\ task_pc' = [task_pc EXCEPT ![t] = "batch_fill"]
    /\ UNCHANGED <<caller_vars, task_ops, task_batch, task_results, task_simulation>>

\* multicall::batch: clear_calls() and add_call(..) for each candidate call
TaskBatchFill(t) ==
    /\ task_pc[t] = "batch_fill"
    /\ multicalls' = [multicalls EXCEPT ![multicall_of(t)] = task_contract_calls(t)]
    /\ task_pc' = [task_pc EXCEPT ![t] = "batch_aggregate"]
    /\ UNCHANGED <<caller_vars, task_ops, task_batch, task_results, task_simulation>>

\* multicall::batch: the aggregate call over what the Multicall holds
TaskBatchAggregate(t) ==
    /\ task_pc[t] = "batch_aggregate"
    /\ task_batch' = [task_batch EXCEPT ![t] = multicall_batch(multicalls[multicall_of(t)])]
    /\ task_pc' = [task_pc EXCEPT ![t] = "call"]
    /\ UNCHANGED <<caller_vars, task_ops, multicalls, task_results, task_simulation>>

\* batch.call().await? (one result per call of the aggregate) and the decision
TaskSimulate(t, flags) ==
    /\ task_pc[t] = "call"
    /\ flags \in [1..Len(task_batch[t]) -> BOOLEAN]
    /\ task_results' = [task_results EXCEPT ![t] = flags]
    /\ task_simulation' =
         [task_simulation EXCEPT ![t] =
            simulate_batch_decide(task_batch[t], task_contract_calls(t), flags)]
    /\ task_pc' = [task_pc EXCEPT ![t] = "planned"]
    /\ UNCHANGED <<caller_vars, task_ops, multicalls, task_batch>>

\* the invocation ends and its locals are dropped
TaskReturn(t) ==
    /\ task_pc[t] = "planned"
    /\ task_pc' = [task_pc EXCEPT ![t] = "idle"]
    /\ task_ops' = [task_ops EXCEPT ![t] = <<>>]
    /\ multicalls' = [multicalls EXCEPT ![multicall_of(t)] = <<>>]
    /\ task_batch' = [task_batch EXCEPT ![t] = <<>>]
    /\ task_results' = [task_results EXCEPT ![t] = <<>>]
    /\ task_simulation' = [task_simulation EXCEPT ![t] = NoPlan]
    /\ UNCHANGED caller_vars

ConcurrentNext ==
    \/ \E t \in Tasks, list \in OpLists : TaskInvoke(t, list)
    \/ \E t \in Tasks : TaskBuildMulticall(t)
    \/ \E t \in Tasks : TaskBatchFill(t)
    \/ \E t \in Tasks : TaskBatchAggregate(t)
    \/ \E t \in Tasks, flags \in FlagLists : TaskSimulate(t, flags)
    \/ \E t \in Tasks : TaskReturn(t)

ConcurrentSpec == Init /\ [][ConcurrentNext]_vars

\* ======================================================================= claims
\* simulate_batch has just returned its plan to try_process_batch
PlanReturned == op = "try_process_batch" /\ pc = "try_submit"
\* N, the number of candidate calls, and k, the number of simulated successes
CallCount == Len(ops)
SuccessCount == Cardinality({i \in 1..Len(call_results) : call_results[i]})
\* the positions (into the operation list) whose simulation failed
FailedPositions == {i - 1 : i \in {j \in 1..Len(call_results) : ~call_results[j]}}
StrictlyAscending(s) == \A i \in 1..Len(s), j \in 1..Len(s) : i < j => s[i] < s[j]
Elements(s) == {s[i] : i \in 1..Len(s)}

\* C1: with k >= 2 simulated successes the plan's aggregate holds exactly the
\* k successful calls, in their original order, and none of the failed ones.
C1_AggregateIsExactlyTheSuccessfulCalls ==
    (PlanReturned /\ SuccessCount >= 2) =>
        /\ IsSome(batch_simulation.call)
        /\ Unwrap(batch_simulation.call) =
             SelectSeq(contract_calls, LAMBDA c : call_results[c.index + 1])

\* C2: with k >= 2 simulated successes excluded_call_indexes lists exactly the
\* failed positions, ascending and without repeats, so it has N - k entries and
\* no successful position.
C2_ExcludedAreTheFailedPositions ==
    (PlanReturned /\ SuccessCount >= 2) =>
        /\ StrictlyAscending(batch_simulation.excluded_call_indexes)
        /\ Elements(batch_simulation.excluded_call_indexes) = FailedPositions
        /\ Len(batch_simulation.excluded_call_indexes) = CallCount - SuccessCount
C2_Witness ==
    /\ PlanReturned
    /\ SuccessCount = 2
    /\ CallCount = 3
    /\ batch_simulation.excluded_call_indexes = <<1>>

\* C3: with fewer than 2 simulated successes (N = 0 and N = 1 included) the
\* plan has no aggregate and excludes every position 0..N-1, the one
\* successful call too.
C3_FewerThanTwoExcludesAll ==
    (PlanReturned /\ SuccessCount < 2) =>
        /\ batch_simulation.call = None
        /\ Len(batch_simulation.excluded_call_indexes) = CallCount
        /\ \A i \in 1..CallCount : batch_simulation.excluded_call_indexes[i] = i - 1
C3_Witness ==
    /\ PlanReturned
    /\ CallCount >= 2
    /\ SuccessCount = 1
    /\ call_results[1]
    /\ batch_simulation.call = None

\* C4: every plan over N operations either has an aggregate and excludes at
\* most N - 2 of them, or has none and excludes exactly N; no plan has an
\* aggregate that nets exactly one operation.
C4_BatchPlanInvariant ==
    PlanReturned =>
        /\ IsSome(batch_simulation.call) =>
             Len(batch_simulation.excluded_call_indexes) <= CallCount - 2
        /\ ~IsSome(batch_simulation.call) =>
             Len(batch_simulation.excluded_call_indexes) = CallCount
        /\ ~(/\ IsSome(batch_simulation.call)
             /\ CallCount - Len(batch_simulation.excluded_call_indexes) = 1)
C4_Witness ==
    /\ PlanReturned
    /\ IsSome(batch_simulation.call)
    /\ Len(batch_simulation.excluded_call_indexes) = CallCount - 2
    /\ CallCount = 3

\* the operation has returned an outcome (process: a TxOutcome; the batch
\* path: a BatchResult that carries one)
OutcomeReturned ==
    /\ op \in {"process", "try_process_batch"}
    /\ pc = "done"
    /\ IsSome(result.outcome)

\* C5: on both delivery paths an outcome is returned only after the finality
\* check of the inclusion block has succeeded: the oracle's last report was at
\* or past that block, and the oracle reports it finalized at that moment too.
C5_OutcomeOnlyAfterFinality ==
    OutcomeReturned =>
        /\ IsSome(last_poll)
        /\ Unwrap(last_poll) >= Unwrap(result.outcome)
        /\ finalized >= Unwrap(result.outcome)
C5_Witness ==
    /\ OutcomeReturned
    /\ op = "try_process_batch"
    /\ polls >= 2
    /\ Unwrap(result.outcome) = finalized

\* C6: a transaction that was broadcast and included, and whose block the
\* oracle never reported finalized within the retry budget, ends the call
\* with the FinalityTimeout error and never with an outcome.
C6_NeverFinalizedIsAnError ==
    (/\ op \in {"process", "try_process_batch"}
     /\ pc = "done"
     /\ IsSome(receipt_block)
     /\ IsSome(last_poll)
     /\ Unwrap(last_poll) < Unwrap(receipt_block)) =>
        /\ result = Err("FinalityTimeout")
        /\ ~IsSome(result.outcome)
C6_Witness ==
    /\ op = "try_process_batch"
    /\ pc = "done"
    /\ IsSome(receipt_block)
    /\ polls = MaxFinalityRetries + 1
    /\ Unwrap(last_poll) < Unwrap(receipt_block)
    /\ result = Err("FinalityTimeout")

\* C7: when the probe itself fails (the aggregate cannot be built, or the
\* read-only call fails in transport) batch delivery returns an error; an
\* all-excluded result comes only from a probe that completed and reported
\* fewer than 2 successes.
C7_ProbeFailureIsAnError ==
    /\ (op = "try_process_batch"
        /\ probe \in {"build_multicall_err", "batch_err", "call_err"}) =>
          (pc = "done" /\ result.kind = "err")
    /\ (op = "try_process_batch" /\ batch_simulation.call = None
        /\ (pc = "try_submit" \/ result.kind = "BatchResult")) =>
          (probe = "ok" /\ SuccessCount < 2)
C7_Witness ==
    /\ op = "try_process_batch"
    /\ probe = "call_err"
    /\ CallCount >= 2
    /\ pc = "done"
    /\ result = Err("TransportError")

\* C8: fetch_logs_by_tx_hash, on the dispatch and the tree-insertion indexer,
\* never surfaces an error to its caller: transport failures are retried.
C8_FetchByTxNeverSurfacesAnError ==
    (op = "fetch_logs_by_tx_hash" /\ pc = "done") => result.kind = "events"

\* C9: fetch_logs_in_range with an empty range (start > end) is rejected
\* before any network call: no log query reaches the transport.
C9_EmptyRangeRejectedBeforeQuery ==
    (op = "fetch_logs_in_range" /\ pc = "done" /\ range[1] > range[2]) =>
        /\ result.kind = "err"
        /\ filter = None
        /\ rpc = <<>>
\* C9, amended: an empty range is not screened: the one log query is sent with
\* the range's bounds as its block filter, and the call returns what the
\* transport answered (its events, or its error).
C9_EmptyRangeIsQueried ==
    (op = "fetch_logs_in_range" /\ pc = "done" /\ range[1] > range[2]) =>
        /\ filter = Some([from_block |-> range[1], to_block |-> range[2]])
        /\ rpc = <<"get_logs">>
        /\ result.kind = "events" \/ result = Err("TransportError")
C9_Witness ==
    /\ op = "fetch_logs_in_range"
    /\ pc = "done"
    /\ range = <<3, 1>>
    /\ indexer = "tree"
    /\ rpc = <<"get_logs">>
    /\ result.kind = "events"

\* C10: for a range a <= b and whatever order the transport returns the logs
\* in, the dispatch events fetch_logs_in_range returns are non-decreasing in
\* the messages' nonce.
C10_DispatchEventsSortedByNonce ==
    (/\ op = "fetch_logs_in_range"
     /\ indexer = "dispatch"
     /\ pc = "done"
     /\ result.kind = "events"
     /\ range[1] <= range[2]) =>
        \A i \in 1..Len(events), j \in 1..Len(events) :
            i < j => events[i].inner.nonce <= events[j].inner.nonce
C10_Witness ==
    /\ op = "fetch_logs_in_range"
    /\ indexer = "dispatch"
    /\ pc = "done"
    /\ Len(events) = 2
    /\ events[1].inner.nonce = 7
    /\ events[2].inner.nonce = 256
    /\ events[1].meta.block_number > events[2].meta.block_number

\* C11: for a range a <= b every event fetch_logs_in_range returns carries a
\* provenance block number n with a <= n <= b.
C11_EventsWithinRange ==
    (/\ op = "fetch_logs_in_range"
     /\ pc = "done"
     /\ result.kind = "events"
     /\ range[1] <= range[2]) =>
        \A i \in 1..Len(events) :
            /\ range[1] <= events[i].meta.block_number
            /\ events[i].meta.block_number <= range[2]
C11_Witness ==
    /\ op = "fetch_logs_in_range"
    /\ pc = "done"
    /\ indexer = "tree"
    /\ range = <<1, 2>>
    /\ Len(events) = 2
    /\ events[1].meta.block_number = 2
    /\ events[2].meta.block_number = 1

\* latest_sequence_count_and_tip has returned Ok
PositionReturned ==
    /\ op = "latest_sequence_count_and_tip"
    /\ pc = "done"
    /\ result.kind = "ok"

\* C12: on the dispatch and the tree-insertion indexer the count returned is
\* the ledger's counter as of exactly the returned tip, also when the ledger
\* has moved on between the tip read and the counter read.
C12_CountIsPinnedToTip ==
    (PositionReturned /\ indexer \in {"dispatch", "tree"}) =>
        /\ Unwrap(value).count = Some(LedgerCount(indexer, Unwrap(value).tip))
        /\ Unwrap(value).tip = Unwrap(last_poll)
        /\ rpc = <<"get_block_finalized", "call_sequence">>
C12_Witness ==
    /\ PositionReturned
    /\ indexer = "dispatch"
    /\ Unwrap(value).tip = 1
    /\ finalized = 2
    /\ Unwrap(value).count = Some(2)

\* C13: the delivery indexer always returns (None, tip) with tip the finalized
\* block number it read; the dispatch and tree-insertion indexers always
\* return a present count.
C13_DeliveryHasNoCount ==
    PositionReturned =>
        /\ indexer = "delivery" =>
             /\ Unwrap(value).count = None
             /\ rpc = <<"get_block_finalized">>
        /\ indexer \in {"dispatch", "tree"} => IsSome(Unwrap(value).count)
        /\ Unwrap(value).tip = Unwrap(last_poll)
        /\ Unwrap(value).tip <= finalized
C13_Witness ==
    /\ PositionReturned
    /\ indexer = "delivery"
    /\ Unwrap(value) = [count |-> None, tip |-> 2]

\* process_estimate_costs has returned an estimate
EstimateReturned ==
    /\ op = "process_estimate_costs"
    /\ pc = "done"
    /\ result.kind = "ok"
Count(s, x) == Cardinality({i \in 1..Len(s) : s[i] = x})

\* C14: on an adapter built with the NodeInterface (a rollup-flagged ledger)
\* every estimate carries the auxiliary contract's estimate as its l2 gas
\* limit; on one built without it no auxiliary read is ever issued and the l2
\* gas limit is absent; the flag never changes after construction.
C14_EstimateReads ==
    /\ EstimateReturned =>
         IF arbitrum_node_interface
         THEN /\ IsSome(Unwrap(value).l2_gas_limit)
              /\ Unwrap(value).l2_gas_limit = l2_gas_limit
              /\ Unwrap(l2_gas_limit) \in L2Estimates
              /\ Count(rpc, "node_interface_estimate_gas") = 1
         ELSE Unwrap(value).l2_gas_limit = None
    /\ ~arbitrum_node_interface => Count(rpc, "node_interface_estimate_gas") = 0
C14_L2GasLimitFollowsTheFlag ==
    /\ []C14_EstimateReads
    /\ [][arbitrum_node_interface' = arbitrum_node_interface]_vars
C14_Witness ==
    /\ EstimateReturned
    /\ arbitrum_node_interface
    /\ Unwrap(value) = [gas_limit |-> 1075000, gas_price |-> 15,
                        l2_gas_limit |-> Some(200000)]

\* the candidate call was built and carries no gas limit
BuiltWithoutGasLimit ==
    /\ op = "process_estimate_costs"
    /\ pc # "estimate_contract_call"
    /\ result # Err("GasFillError")
    /\ gas_limit = None

\* C15: when the built candidate call has no gas limit the estimate fails
\* with ProcessGasLimitRequired, and neither the auxiliary read nor the gas
\* price read is issued, and no estimate is returned.
C15_NoGasLimitFailsBeforeFurtherReads ==
    BuiltWithoutGasLimit =>
        /\ pc = "done"
        /\ result = Err("ProcessGasLimitRequired")
        /\ value = None
        /\ Count(rpc, "node_interface_estimate_gas") = 0
        /\ Count(rpc, "get_gas_price") = 0
C15_Witness ==
    /\ BuiltWithoutGasLimit
    /\ arbitrum_node_interface
    /\ rpc = <<"estimate_gas", "get_block">>
    /\ result = Err("ProcessGasLimitRequired")

\* C16: get_finalized_block_number issues one fresh read per call and returns
\* the ledger's finalized block number when there is one; a failed read is a
\* transport error, and a ledger with no finalized block (or one without a
\* number) is the finality-unknown error, never 0 or another default.
C16_OracleResult ==
    (op = "get_finalized_block_number" /\ pc = "done") =>
        /\ rpc = <<"get_block_finalized">>
        /\ oracle = "ok" =>
             /\ result.kind = "ok"
             /\ value = last_poll
             /\ Unwrap(value) <= finalized
        /\ oracle = "transport_err" =>
             (result = Err("TransportError") /\ value = None)
        /\ oracle \in {"no_block", "no_number"} =>
             (result = Err(BLOCK_ERROR_MSG) /\ value = None)
C16_FreshFinalizedRead ==
    /\ []C16_OracleResult
    /\ [][(op' = "get_finalized_block_number" /\ pc = "idle" /\ result'.kind = "ok")
            => value' = Some(finalized)]_vars
C16_Witness ==
    /\ op = "get_finalized_block_number"
    /\ pc = "done"
    /\ oracle = "no_block"
    /\ finalized = 2
    /\ result = Err(BLOCK_ERROR_MSG)

\* a delivery whose transaction the ledger accepted for broadcast
BroadcastAccepted ==
    /\ op \in {"process", "try_process_batch"}
    /\ Count(rpc, "send_transaction") = 1
    /\ result # Err("SubmissionError")
\* the request that follows the first occurrence of x in s, if any
Following(s, x) ==
    LET at == {i \in 1..Len(s) : s[i] = x}
        first == CHOOSE i \in at : \A j \in at : i <= j
    IN  IF at = {} \/ first = Len(s) THEN None ELSE Some(s[first + 1])

\* C18: once the transaction (single or aggregate) has been broadcast, the
\* submitter goes on to the finality wait for its inclusion block before it
\* returns anything: while the transaction is pending nothing is returned,
\* the next step is the finality wait, and every return after a broadcast
\* comes after at least one finality poll.
C18_ReturnedAfterFinalityWait ==
    (BroadcastAccepted /\ pc = "done") =>
        /\ IsSome(receipt_block)
        /\ polls >= 1
        /\ Following(rpc, "send_transaction") = Some("get_finalized_block_number")
C18_BroadcastLeadsToFinalityWait ==
    /\ []C18_ReturnedAfterFinalityWait
    /\ [][pc = "pending_tx" =>
            (pc' \in {"pending_tx", "ensure_block_finalized"} /\ result' = NoResult)]_vars
C18_Witness ==
    /\ BroadcastAccepted
    /\ op = "process"
    /\ pc = "done"
    /\ polls = 1
    /\ receipt_block = Some(1)
    /\ result = TxOutcome(1)

\* the request a batch delivery over N operations issues in position i
BatchStep(i) ==
    IF i <= CallCount THEN "fill_tx_gas_params"
    ELSE IF i = CallCount + 1 THEN "multicall_call"
    ELSE IF i = CallCount + 2 THEN "fill_tx_gas_params"
    ELSE IF i = CallCount + 3 THEN "send_transaction"
    ELSE "get_finalized_block_number"

\* C19: one batch delivery builds all calls, simulates, decides, fills the
\* gas parameters, broadcasts and waits for finality, in that order: nothing
\* is broadcast before the probe has returned and the plan is decided, and a
\* GasFillError or a SubmissionError is returned with no later step executed.
C19_BatchStepsInOrder ==
    op = "try_process_batch" =>
        /\ \A i \in 1..Len(rpc) : rpc[i] = BatchStep(i)
        /\ Count(rpc, "send_transaction") >= 1 =>
             (probe = "ok" /\ IsSome(batch_simulation.call))
        /\ polls = IF Len(rpc) > CallCount + 3 THEN Len(rpc) - (CallCount + 3) ELSE 0
        /\ result = Err("GasFillError") =>
             /\ pc = "done"
             /\ rpc[Len(rpc)] = "fill_tx_gas_params"
             /\ Count(rpc, "send_transaction") = 0
             /\ receipt_block = None
        /\ result = Err("SubmissionError") =>
             /\ pc = "done"
             /\ rpc[Len(rpc)] = "send_transaction"
             /\ receipt_block = None
C19_Witness ==
    /\ op = "try_process_batch"
    /\ pc = "done"
    /\ CallCount = 2
    /\ rpc = <<"fill_tx_gas_params", "fill_tx_gas_params", "multicall_call",
               "fill_tx_gas_params", "send_transaction">>
    /\ result = Err("SubmissionError")

\* the plan has been decided and try_submit entered or passed
PlanDecided ==
    /\ op = "try_process_batch"
    /\ probe = "ok"
    /\ pc \notin {"idle", "join_all", "simulate_batch"}

\* C20: when the plan has no aggregate, try_submit broadcasts nothing and
\* waits for no finality, and returns a BatchResult (not an error) without an
\* outcome that marks all N operations failed; when the aggregate is present
\* and submission succeeds, the BatchResult carries the outcome and exactly
\* the plan's excluded indices.
C20_TrySubmitResult ==
    /\ (PlanDecided /\ batch_simulation.call = None) =>
         /\ Count(rpc, "send_transaction") = 0
         /\ polls = 0
         /\ receipt_block = None
         /\ pc = "done" => result = BatchResult_new(None, Range0(CallCount))
    /\ (PlanDecided /\ IsSome(batch_simulation.call) /\ pc = "done"
          /\ result.kind # "err") =>
         /\ result.kind = "BatchResult"
         /\ result.outcome = receipt_block
         /\ IsSome(result.outcome)
         /\ result.failed_indexes = batch_simulation.excluded_call_indexes
         /\ Elements(result.failed_indexes) = FailedPositions
C20_Witness ==
    /\ PlanDecided
    /\ pc = "done"
    /\ CallCount = 3
    /\ SuccessCount = 1
    /\ batch_simulation.call = None
    /\ result = BatchResult_new(None, <<0, 1, 2>>)
    /\ rpc = <<"fill_tx_gas_params", "fill_tx_gas_params", "fill_tx_gas_params",
               "multicall_call">>

\* an operation of the batch is not batchable, or one candidate call's build
\* has failed
BuildFailed ==
    /\ op = "try_process_batch"
    /\ \/ \E i \in 1..Len(ops) : ~ops[i].batchable
       \/ \E i \in 1..Len(built) : built[i] = "err"

\* C21: the candidate calls are built concurrently and joined; when the
\* conversion of an operation or the build of any one call fails, the
\* invocation returns that error and neither the simulation probe nor a
\* broadcast happens, however many other builds succeeded and in whatever
\* order they completed.
C21_BuildFailureEndsTheBatch ==
    /\ BuildFailed =>
         /\ pc \in {"join_all", "done"}
         /\ pc = "done" => (result.kind = "err"
                            /\ result.err \in {"NotBatchable", "GasFillError"})
         /\ probe = "none"
         /\ batch_simulation = NoPlan
         /\ Count(rpc, "multicall_call") = 0
         /\ Count(rpc, "send_transaction") = 0
    /\ (op = "try_process_batch" /\ pc = "simulate_batch") =>
         \A i \in 1..Len(built) : built[i] = "ok"
C21_Witness ==
    /\ BuildFailed
    /\ pc = "done"
    /\ built = <<"ok", "err", "ok">>
    /\ result = Err("GasFillError")
    /\ rpc = <<"fill_tx_gas_params", "fill_tx_gas_params", "fill_tx_gas_params">>

\* the operations that must not retry inside the adapter, and their reads
SingleAttemptOps ==
    {"fetch_logs_in_range", "latest_sequence_count_and_tip",
     "get_finalized_block_number", "count", "delivered",
     "process_estimate_costs", "try_process_batch"}
SingleReads ==
    {"get_logs", "get_block_finalized", "call_sequence", "call_nonce",
     "call_delivered", "estimate_gas", "get_block",
     "node_interface_estimate_gas", "get_gas_price", "multicall_call"}

\* C22: apart from fetch_logs_by_tx_hash, every operation makes one attempt
\* per underlying read: the first transport failure ends the call with an
\* error at once, nothing is returned besides it, and no read is issued twice.
C22_FirstFailureIsReturned ==
    op \in SingleAttemptOps =>
        /\ failures >= 1 =>
             /\ failures = 1
             /\ pc = "done"
             /\ result.kind = "err"
             /\ rpc[Len(rpc)] \in SingleReads
        /\ \A read \in SingleReads : Count(rpc, read) <= 1
C22_Witness ==
    /\ op = "latest_sequence_count_and_tip"
    /\ indexer = "tree"
    /\ failures = 1
    /\ rpc = <<"get_block_finalized", "call_sequence">>
    /\ result = Err("TransportError")

\* fetch_logs_in_range has returned events for the logs the transport gave
RangeFetched ==
    /\ op = "fetch_logs_in_range"
    /\ pc = "done"
    /\ result.kind = "events"
\* the event each returned log decodes to, in the transport's order
DecodedLogs == [i \in 1..Len(raw_logs) |-> IndexedEvent(indexer, raw_logs[i])]

C24_LogOrderIsKept ==
    RangeFetched =>
        IF indexer = "dispatch"
        THEN \A e \in Elements(DecodedLogs) :
                SelectSeq(events, LAMBDA x : x.inner.nonce = e.inner.nonce)
                  = SelectSeq(DecodedLogs, LAMBDA x : x.inner.nonce = e.inner.nonce)
        ELSE events = DecodedLogs
C24_Witness ==
    /\ RangeFetched
    /\ indexer = "delivery"
    /\ Len(events) = 2
    /\ events[1].inner = "m2"
    /\ events[2].inner = "m1"
    /\ events[1].meta.block_number > events[2].meta.block_number
    /\ events = DecodedLogs

\* C25: every tree the Merkle State Reader returns has exactly 32 branch
\* slots, slot by slot the branch entries the ledger reported, in the same
\* order, and the ledger-reported leaf count; nothing is recomputed, and the
\* read changes nothing on the ledger.
C25_TreeReturned ==
    (op = "tree" /\ pc = "done" /\ result.kind = "ok") =>
        /\ IsSome(ledger_tree)
        /\ Len(Unwrap(value).branch) = 32
        /\ \A i \in 1..32 : Unwrap(value).branch[i] = Unwrap(ledger_tree).branch[i]
        /\ Unwrap(ledger_tree).count = U256(Unwrap(value).count, 0)
C25_TreeIsTheLedgersVerbatim ==
    /\ []C25_TreeReturned
    /\ [][(pc = "idle" /\ op' = "tree") => finalized' = finalized]_vars
C25_Witness ==
    /\ op = "tree"
    /\ pc = "done"
    /\ result.kind = "ok"
    /\ Unwrap(value).count = 3
    /\ Unwrap(value).branch[3] = <<3, 2>>
    /\ Unwrap(value).branch[4] = <<0, 0>>
    /\ Unwrap(value).branch[32] = <<0, 0>>

\* the reads of one estimate on a rollup-flagged ledger, in order
FlaggedEstimateReads ==
    <<"estimate_gas", "get_block", "node_interface_estimate_gas", "get_gas_price">>

\* C27: on a rollup-flagged ledger one estimate reads, in this order, the gas
\* estimate of the candidate call, the block for the gas parameters, the
\* auxiliary contract's estimate exactly once, and the gas price; the
\* estimate returned carries the call's filled gas limit, the gas price read
\* last and the auxiliary estimate as l2 gas limit.
C27_FlaggedEstimateReadOrder ==
    (op = "process_estimate_costs" /\ arbitrum_node_interface) =>
        /\ Len(rpc) <= Len(FlaggedEstimateReads)
        /\ \A i \in 1..Len(rpc) : rpc[i] = FlaggedEstimateReads[i]
        /\ EstimateReturned =>
             /\ rpc = FlaggedEstimateReads
             /\ Unwrap(value).gas_limit = Unwrap(gas_limit)
             /\ Unwrap(gas_limit) - GAS_ESTIMATE_BUFFER \in GasEstimates
             /\ Unwrap(value).gas_price \in GasPrices
             /\ Unwrap(value).l2_gas_limit = l2_gas_limit
             /\ IsSome(l2_gas_limit)
C27_Witness ==
    /\ EstimateReturned
    /\ arbitrum_node_interface
    /\ rpc = FlaggedEstimateReads
    /\ gas_limit = Some(1075000)
    /\ l2_gas_limit = Some(200000)
    /\ Unwrap(value).gas_price = 15

\* the positions (into invocation t's own list) its probe reported failed
TaskFailedPositions(t) ==
    {i - 1 : i \in {j \in 1..Len(task_results[t]) : ~task_results[t][j]}}

\* C26: two try_process_batch invocations on one adapter do not interfere:
\* under every interleaving each invocation's plan is decided by its own
\* operation list and its own probe results alone - the probe answers for
\* its own calls, the aggregate holds none but its own calls, and the
\* excluded indices are its own failed positions (or all of its positions).
C26_PlansAreIndependent ==
    \A t \in Tasks :
        task_pc[t] = "planned" =>
            LET own == task_contract_calls(t)
                plan == task_simulation[t]
                successes == Len(own) - Cardinality(TaskFailedPositions(t))
            IN  /\ Len(task_results[t]) = Len(own)
                /\ IsSome(plan.call) <=> successes >= 2
                /\ IsSome(plan.call) => Elements(Unwrap(plan.call)) \subseteq Elements(own)
                /\ Elements(plan.excluded_call_indexes) =
                     IF successes >= 2 THEN TaskFailedPositions(t)
                     ELSE {i - 1 : i \in 1..Len(own)}
C26_Witness ==
    /\ task_pc[1] = "planned"
    /\ task_pc[2] = "batch_aggregate"
    /\ Len(task_ops[1]) = 3
    /\ Len(task_ops[2]) = 2
    /\ task_results[1] = <<TRUE, FALSE, TRUE>>
    /\ task_simulation[1].excluded_call_indexes = <<1>>
    /\ multicalls[2] = task_contract_calls(2)

====
